---- MODULE Spec2Model ----
(***************************************************************************)
(* Lifecycle manager of the SOME/IP test service                           *)
(* (someip-test-service-sys/cpp): the C entry points launch()/terminate()  *)
(* of lib.cpp, the Manager singleton of manager.hpp, and the CommonAPI     *)
(* runtime it drives, seen through registerService, unregisterService and  *)
(* buildProxy(...)->isAvailable().                                         *)
(*                                                                         *)
(* Caller threads repeatedly call launch() or terminate().  Each call is   *)
(* cut into the steps at which another thread could observe it: taking the *)
(* mutex, Manager::instance(), the has_value() check, every attempt of a   *)
(* retry loop, every sleep, building the proxy, every poll, the write of   *)
(* running_service, and the release of the mutex on return.                *)
(*                                                                         *)
(* The runtime is the environment: a register or unregister attempt may    *)
(* fail or succeed, and the availability seen by a proxy follows the       *)
(* registration asynchronously.                                            *)
(*                                                                         *)
(* Process shutdown runs ~Manager on the exiting thread (Main).  Static    *)
(* destruction is modelled after every caller has returned: a call into    *)
(* the manager during or after its destruction has no defined behaviour.   *)
(***************************************************************************)
EXTENDS Integers, Sequences, FiniteSets, TLC

\* Number of threads calling launch()/terminate().
NumThreads == 3
\* Most failed attempts (or mismatching polls) of one retry loop.
MaxFail == 2
\* Most stub instances create_service() makes in one run.
MaxHandles == 2

\* manager.hpp:33, milliseconds
RETRY_TIMEOUT == 100

Threads == 1..NumThreads
\* The thread that leaves main()/calls exit() and runs static destruction.
Main == NumThreads + 1
Procs == Threads \cup {Main}
NoThread == 0
\* std::nullopt
NoService == 0
Handles == 1..MaxHandles

VARIABLES
    mutex,            \* test_service_manager_mutex: its owner, or NoThread
    constructed,      \* the function-local static Manager has been constructed
    running_service,  \* Manager::running_service: NoService or the stored handle
    pc,               \* each thread's position
    op,               \* the entry point each thread is in
    service,          \* the Service a thread is working on (local / running_service.value())
    log,              \* runtime calls and sleeps of a thread's current (or last) call
    slept,            \* milliseconds a thread slept in its current (or last) call
    registered,       \* runtime: the stub registered for the identity, or NoService
    available,        \* runtime: what isAvailable() of a proxy for the identity returns
    created,          \* number of stubs made by create_service so far
    regOk,            \* number of registerService calls that returned true
    unregOk,          \* number of unregisterService calls that returned true
    configured,       \* number of runs of configure_common_api_runtime
    rpc               \* the last call dispatched to the stub and the replies it invoked

vars == <<mutex, constructed, running_service, pc, op, service, log, slept,
          registered, available, created, regOk, unregOk, configured, rpc>>

runtimeVars == <<registered, available, regOk, unregOk>>

----------------------------------------------------------------------------
\* std::optional<Service>::has_value()
has_value(slot) == slot # NoService

\* A launch() that has been called and has not yet passed the check of line 77.
PendingLaunch == {u \in Threads : op[u] = "launch" /\ pc[u] \in {"lock", "instance", "check"}}

Logged(p, events) == log' = [log EXCEPT ![p] = log[p] \o events]

Goto(p, label) == pc' = [pc EXCEPT ![p] = label]

Init ==
    /\ mutex = NoThread
    /\ constructed = FALSE
    /\ running_service = NoService
    /\ pc = [p \in Procs |-> IF p = Main THEN "running" ELSE "idle"]
    /\ op = [p \in Procs |-> "none"]
    /\ service = [p \in Procs |-> NoService]
    /\ log = [p \in Procs |-> <<>>]
    /\ slept = [p \in Procs |-> 0]
    /\ registered = NoService
    /\ available = FALSE
    /\ created = 0
    /\ regOk = 0
    /\ unregOk = 0
    /\ configured = 0
    /\ rpc = [method |-> "none", param |-> <<>>, replies |-> <<>>]

----------------------------------------------------------------------------
\* A thread calls an entry point of lib.cpp and blocks on the lock_guard.
Enter(t, entry) ==
    /\ pc[Main] = "running"
    /\ pc[t] = "idle"
    /\ Goto(t, "lock")
    /\ op' = [op EXCEPT ![t] = entry]
    /\ UNCHANGED <<mutex, constructed, running_service, service, log, slept,
                   created, runtimeVars, configured, rpc>>

\* void launch(void)
launch(t) ==
    /\ created + Cardinality(PendingLaunch) < MaxHandles
    /\ Enter(t, "launch")

\* void terminate(void)
terminate(t) == Enter(t, "terminate")

\* Mutant of lock_guard: the entry point goes on without waiting for the mutex.
lock_guard_absent(t) ==
    /\ pc[t] = "lock"
    /\ mutex' = t
    /\ Goto(t, "instance")
    /\ UNCHANGED <<constructed, running_service, op, service, log, slept, created,
                   runtimeVars, configured, rpc>>

\* const std::lock_guard<std::mutex> lock(test_service_manager_mutex);
lock_guard(t) ==
    /\ pc[t] = "lock"
    /\ mutex = NoThread
    /\ mutex' = t
    /\ Goto(t, "instance")
    /\ UNCHANGED <<constructed, running_service, op, service, log, slept, created,
                   runtimeVars, configured, rpc>>

\* The runtime calls of Manager::configure_common_api_runtime.
configure_common_api_runtime == <<"setProperty", "Runtime::get">>

\* Mutant of instance: the Manager is not static, every call constructs and
\* configures one.
instance_not_static(t) ==
    /\ pc[t] = "instance"
    /\ constructed' = TRUE
    /\ running_service' = running_service
    /\ Logged(t, configure_common_api_runtime)
    /\ configured' = configured + 1
    /\ Goto(t, "check")
    /\ UNCHANGED <<mutex, op, service, slept, created, runtimeVars, rpc>>

\* Manager::instance(): the first call constructs the static Manager, whose
\* constructor empties the slot and configures the runtime.
instance(t) ==
    /\ pc[t] = "instance"
    /\ IF constructed
          THEN UNCHANGED <<constructed, running_service, log, configured>>
          ELSE /\ constructed' = TRUE
               /\ running_service' = NoService
               /\ Logged(t, configure_common_api_runtime)
               /\ configured' = configured + 1
    /\ Goto(t, "check")
    /\ UNCHANGED <<mutex, op, service, slept, created, runtimeVars, rpc>>

\* Number of occurrences of event e in a log.
RECURSIVE Count(_, _)
Count(seq, e) ==
    IF seq = <<>> THEN 0
    ELSE (IF Head(seq) = e THEN 1 ELSE 0) + Count(Tail(seq), e)

\* Where a thread goes when terminate_test_service returns: a caller releases
\* the mutex, the exiting thread has finished ~Manager.
Return(p) == IF p = Main THEN "exited" ELSE "unlock"

\* Mutant of create_service: the stub of the previous launch is reused.
create_service_cached == IF created = 0 THEN 1 ELSE created

\* Service create_service() const: a fresh stub under the fixed identity.
create_service == created + 1

\* Mutant of launch_test_service: the has_value() check is missing, every
\* launch creates and registers a service.
launch_test_service_unchecked(t) ==
    /\ pc[t] = "check"
    /\ op[t] = "launch"
    /\ service' = [service EXCEPT ![t] = create_service]
    /\ created' = created + 1
    /\ Logged(t, <<"Runtime::get">>)
    /\ Goto(t, "register")
    /\ UNCHANGED <<mutex, constructed, running_service, op, slept, runtimeVars, configured, rpc>>

\* Mutant of launch_test_service: the has_value() check is inverted.
launch_test_service_inverted(t) ==
    /\ pc[t] = "check"
    /\ op[t] = "launch"
    /\ IF has_value(running_service)
          THEN /\ service' = [service EXCEPT ![t] = create_service]
               /\ created' = created + 1
               /\ Logged(t, <<"Runtime::get">>)
               /\ Goto(t, "register")
          ELSE /\ Goto(t, "unlock")
               /\ UNCHANGED <<service, created, log>>
    /\ UNCHANGED <<mutex, constructed, running_service, op, slept, runtimeVars, configured, rpc>>

\* void launch_test_service(): the check of line 77; on an empty slot it
\* creates the service and enters register_service (which fetches the runtime).
launch_test_service(t) ==
    /\ pc[t] = "check"
    /\ op[t] = "launch"
    /\ IF ~has_value(running_service)
          THEN /\ service' = [service EXCEPT ![t] = create_service]
               /\ created' = created + 1
               /\ Logged(t, <<"Runtime::get">>)
               /\ Goto(t, "register")
          ELSE /\ Goto(t, "unlock")
               /\ UNCHANGED <<service, created, log>>
    /\ UNCHANGED <<mutex, constructed, running_service, op, slept, runtimeVars, configured, rpc>>

\* Mutant of terminate_test_service: the has_value() check is missing, every
\* terminate unregisters.
terminate_test_service_unchecked(p) ==
    /\ pc[p] = "check"
    /\ op[p] \in {"terminate", "destructor"}
    /\ service' = [service EXCEPT ![p] = running_service]
    /\ Logged(p, <<"Runtime::get">>)
    /\ Goto(p, "unregister")
    /\ UNCHANGED <<mutex, constructed, running_service, op, slept, created, runtimeVars,
                   configured, rpc>>

\* void terminate_test_service(): the check of line 91; on a populated slot it
\* enters unregister_service on running_service.value().  Reached from
\* terminate() and, without the mutex, from ~Manager.
terminate_test_service(p) ==
    /\ pc[p] = "check"
    /\ op[p] \in {"terminate", "destructor"}
    /\ IF has_value(running_service)
          THEN /\ service' = [service EXCEPT ![p] = running_service]
               /\ Logged(p, <<"Runtime::get">>)
               /\ Goto(p, "unregister")
          ELSE /\ Goto(p, Return(p))
               /\ UNCHANGED <<service, log>>
    /\ UNCHANGED <<mutex, constructed, running_service, op, slept, created, runtimeVars,
                   configured, rpc>>

\* Mutant of register_service: a failed attempt is retried at once, without
\* the sleep.
register_service_busy(t) ==
    /\ pc[t] = "register"
    /\ \E ok \in BOOLEAN :
          IF ok
             THEN /\ registered' = service[t]
                  /\ regOk' = regOk + 1
                  /\ Logged(t, <<"registerService:true">>)
                  /\ Goto(t, "build_proxy")
             ELSE /\ Count(log[t], "registerService:false") < MaxFail
                  /\ Logged(t, <<"registerService:false">>)
                  /\ Goto(t, "register")
                  /\ UNCHANGED <<registered, regOk>>
    /\ UNCHANGED <<mutex, constructed, running_service, op, service, slept,
                   available, created, unregOk, configured, rpc>>

\* One evaluation of the loop condition of register_service (line 126):
\* runtime->registerService(...) returns true or false.
register_service(t) ==
    /\ pc[t] = "register"
    /\ \E ok \in BOOLEAN :
          IF ok
             THEN /\ registered' = service[t]
                  /\ regOk' = regOk + 1
                  /\ Logged(t, <<"registerService:true">>)
                  /\ Goto(t, "build_proxy")
             ELSE /\ Count(log[t], "registerService:false") < MaxFail
                  /\ Logged(t, <<"registerService:false">>)
                  /\ Goto(t, "sleep_register")
                  /\ UNCHANGED <<registered, regOk>>
    /\ UNCHANGED <<mutex, constructed, running_service, op, service, slept,
                   available, created, unregOk, configured, rpc>>

\* Mutant of unregister_service: after a successful unregistration the
\* caller resets the slot at once, wait_service is skipped.
unregister_service_nowait(p) ==
    /\ pc[p] = "unregister"
    /\ \E ok \in BOOLEAN :
          IF ok
             THEN /\ registered' = NoService
                  /\ unregOk' = unregOk + 1
                  /\ Logged(p, <<"unregisterService:true">>)
                  /\ Goto(p, "store")
             ELSE /\ Count(log[p], "unregisterService:false") < MaxFail
                  /\ Logged(p, <<"unregisterService:false">>)
                  /\ Goto(p, "sleep_unregister")
                  /\ UNCHANGED <<registered, unregOk>>
    /\ UNCHANGED <<mutex, constructed, running_service, op, service, slept,
                   available, created, regOk, configured, rpc>>

\* One evaluation of the loop condition of unregister_service (line 136).
unregister_service(p) ==
    /\ pc[p] = "unregister"
    /\ \E ok \in BOOLEAN :
          IF ok
             THEN /\ registered' = NoService
                  /\ unregOk' = unregOk + 1
                  /\ Logged(p, <<"unregisterService:true">>)
                  /\ Goto(p, "build_proxy")
             ELSE /\ Count(log[p], "unregisterService:false") < MaxFail
                  /\ Logged(p, <<"unregisterService:false">>)
                  /\ Goto(p, "sleep_unregister")
                  /\ UNCHANGED <<registered, unregOk>>
    /\ UNCHANGED <<mutex, constructed, running_service, op, service, slept,
                   available, created, regOk, configured, rpc>>

\* wait_service, lines 147-149: fetch the runtime and build the proxy.
buildProxy(p) ==
    /\ pc[p] = "build_proxy"
    /\ Logged(p, <<"Runtime::get", "buildProxy">>)
    /\ Goto(p, "poll")
    /\ UNCHANGED <<mutex, constructed, running_service, op, service, slept,
                   created, runtimeVars, configured, rpc>>

\* Mutant of to_be_available: terminate_test_service waits for true as well.
to_be_available_always(p) == TRUE

\* The argument wait_service is called with: true from launch_test_service
\* (line 81), false from terminate_test_service (line 93).
to_be_available(p) == op[p] = "launch"

IsAvailable(b) == IF b THEN "isAvailable:true" ELSE "isAvailable:false"

\* Mutant of wait_service: the probe is asked once and its answer ignored.
wait_service_once(p) ==
    /\ pc[p] = "poll"
    /\ Logged(p, <<IsAvailable(available)>>)
    /\ Goto(p, "store")
    /\ UNCHANGED <<mutex, constructed, running_service, op, service, slept,
                   created, runtimeVars, configured, rpc>>

\* One evaluation of the loop condition of wait_service (line 150).
wait_service(p) ==
    /\ pc[p] = "poll"
    /\ Logged(p, <<IsAvailable(available)>>)
    /\ IF available # to_be_available(p)
          THEN /\ Count(log[p], IsAvailable(available)) < MaxFail
               /\ Goto(p, "sleep_poll")
          ELSE Goto(p, "store")
    /\ UNCHANGED <<mutex, constructed, running_service, op, service, slept,
                   created, runtimeVars, configured, rpc>>

\* The loop a sleeping thread goes back to.
Resume(label) ==
    CASE label = "sleep_register"   -> "register"
      [] label = "sleep_unregister" -> "unregister"
      [] label = "sleep_poll"       -> "poll"

\* void sleep() const: std::this_thread::sleep_for(RETRY_TIMEOUT)
sleep(p) ==
    /\ pc[p] \in {"sleep_register", "sleep_unregister", "sleep_poll"}
    /\ slept' = [slept EXCEPT ![p] = slept[p] + RETRY_TIMEOUT]
    /\ Logged(p, <<"sleep">>)
    /\ Goto(p, Resume(pc[p]))
    /\ UNCHANGED <<mutex, constructed, running_service, op, service, created,
                   runtimeVars, configured, rpc>>

\* Mutant of store_service: the assignment of line 83 is missing.
store_service_forgotten(t) ==
    /\ pc[t] = "store"
    /\ op[t] = "launch"
    /\ Goto(t, "unlock")
    /\ UNCHANGED <<mutex, constructed, running_service, op, service, log, slept,
                   created, runtimeVars, configured, rpc>>

\* running_service = service;  (line 83)
store_service(t) ==
    /\ pc[t] = "store"
    /\ op[t] = "launch"
    /\ running_service' = service[t]
    /\ Goto(t, "unlock")
    /\ UNCHANGED <<mutex, constructed, op, service, log, slept, created, runtimeVars,
                   configured, rpc>>

\* running_service.reset();  (line 95)
reset_service(p) ==
    /\ pc[p] = "store"
    /\ op[p] \in {"terminate", "destructor"}
    /\ running_service' = NoService
    /\ Goto(p, Return(p))
    /\ UNCHANGED <<mutex, constructed, op, service, log, slept, created, runtimeVars,
                   configured, rpc>>

\* Mutant of unlock: the entry point returns with the mutex still locked.
unlock_leaked(t) ==
    /\ pc[t] = "unlock"
    /\ Goto(t, "idle")
    /\ op' = [op EXCEPT ![t] = "none"]
    /\ service' = [service EXCEPT ![t] = NoService]
    /\ log' = [log EXCEPT ![t] = <<>>]
    /\ slept' = [slept EXCEPT ![t] = 0]
    /\ UNCHANGED <<mutex, constructed, running_service, created, runtimeVars, configured, rpc>>

\* launch()/terminate() return: the lock_guard releases the mutex and the
\* call's locals go out of scope.
unlock(t) ==
    /\ pc[t] = "unlock"
    /\ mutex' = NoThread
    /\ Goto(t, "idle")
    /\ op' = [op EXCEPT ![t] = "none"]
    /\ service' = [service EXCEPT ![t] = NoService]
    /\ log' = [log EXCEPT ![t] = <<>>]
    /\ slept' = [slept EXCEPT ![t] = 0]
    /\ UNCHANGED <<constructed, running_service, created, runtimeVars, configured, rpc>>

\* Mutant of exit: ~Manager has an empty body, no implicit terminate.
exit_without_terminate ==
    /\ pc[Main] = "running"
    /\ \A t \in Threads : pc[t] = "idle"
    /\ Goto(Main, "exited")
    /\ UNCHANGED <<mutex, constructed, running_service, op, service, log, slept,
                   created, runtimeVars, configured, rpc>>

\* Process shutdown: static destruction runs ~Manager, which calls
\* terminate_test_service() directly, if the Manager was ever constructed.
exit ==
    /\ pc[Main] = "running"
    /\ \A t \in Threads : pc[t] = "idle"
    /\ IF constructed
          THEN /\ Goto(Main, "check")
               /\ op' = [op EXCEPT ![Main] = "destructor"]
          ELSE /\ Goto(Main, "exited")
               /\ UNCHANGED op
    /\ UNCHANGED <<mutex, constructed, running_service, service, log, slept,
                   created, runtimeVars, configured, rpc>>

----------------------------------------------------------------------------
\* The runtime's availability signal catches up with the registration.
becomeAvailable ==
    /\ registered # NoService
    /\ ~available
    /\ available' = TRUE
    /\ UNCHANGED <<mutex, constructed, running_service, pc, op, service, log, slept,
                   registered, created, regOk, unregOk, configured, rpc>>

becomeUnavailable ==
    /\ registered = NoService
    /\ available
    /\ available' = FALSE
    /\ UNCHANGED <<mutex, constructed, running_service, pc, op, service, log, slept,
                   registered, created, regOk, unregOk, configured, rpc>>

----------------------------------------------------------------------------
Next ==
    \/ \E t \in Threads : launch(t)
    \/ \E t \in Threads : terminate(t)
    \/ \E t \in Threads : lock_guard(t)
    \/ \E t \in Threads : instance(t)
    \/ \E t \in Threads : launch_test_service(t)
    \/ \E p \in Procs : terminate_test_service(p)
    \/ \E t \in Threads : register_service(t)
    \/ \E p \in Procs : unregister_service(p)
    \/ \E p \in Procs : buildProxy(p)
    \/ \E p \in Procs : wait_service(p)
    \/ \E p \in Procs : sleep(p)
    \/ \E t \in Threads : store_service(t)
    \/ \E p \in Procs : reset_service(p)
    \/ \E t \in Threads : unlock(t)
    \/ exit
    \/ becomeAvailable
    \/ becomeUnavailable

Spec == Init /\ [][Next]_vars

TypeOK ==
    /\ mutex \in Threads \cup {NoThread}
    /\ constructed \in BOOLEAN
    /\ running_service \in Handles \cup {NoService}
    /\ registered \in Handles \cup {NoService}
    /\ available \in BOOLEAN
    /\ created \in 0..MaxHandles
    /\ regOk \in 0..MaxHandles
    /\ unregOk \in 0..MaxHandles
    /\ configured \in 0..1
    /\ \A p \in Procs : service[p] \in Handles \cup {NoService}

----------------------------------------------------------------------------
\* Positions inside Manager::launch_test_service / terminate_test_service.
Inside(p) ==
    pc[p] \in {"check", "register", "sleep_register", "unregister", "sleep_unregister",
               "build_proxy", "poll", "sleep_poll", "store"}

\* The step appends exactly event e to the log of p: p issued that call.
Issued(p, e) == log'[p] = Append(log[p], e)

RegisterAttempt(p) == Issued(p, "registerService:true") \/ Issued(p, "registerService:false")

UnregisterAttempt(p) == Issued(p, "unregisterService:true") \/ Issued(p, "unregisterService:false")

\* The call of t took the transition branch (it has a Service to work on).
Transitioned(p) == service[p] # NoService

\* C1: no registerService attempt (successful or failed) is issued while the
\* running-service slot is populated, and no unregisterService attempt is
\* issued while the slot is empty.
C1_NoRedundantRuntimeCall ==
    [][\A p \in Procs :
          /\ RegisterAttempt(p) => ~has_value(running_service)
          /\ UnregisterAttempt(p) => has_value(running_service)]_vars

\* Both kinds of attempt have been issued: an unregister attempt failed after
\* a registration had succeeded.
C1_Witness ==
    \E p \in Procs :
        /\ Count(log[p], "unregisterService:false") > 0
        /\ regOk > 0

\* C2: whenever a thread is between the state check and the slot update of
\* launch or terminate it holds the lock, and no other thread is inside
\* launch_test_service or terminate_test_service.
C2_OneTransitionUnderLock ==
    \A p \in Procs :
        Inside(p) => /\ mutex = p
                     /\ \A q \in Procs \ {p} : ~Inside(q)

\* C3: the slot only ever goes empty -> populated -> empty -> ..., and
\* successful registerService and unregisterService calls strictly alternate,
\* starting with a registration.
C3_ValidWalk ==
    [][/\ running_service' # running_service
            => has_value(running_service) # has_value(running_service')
       /\ regOk' # regOk => (regOk' = regOk + 1 /\ regOk = unregOk)
       /\ unregOk' # unregOk => (unregOk' = unregOk + 1 /\ regOk = unregOk + 1)]_vars

\* A second registration has succeeded, after an unregistration, while another
\* caller is queued on the lock.
C3_Witness ==
    /\ regOk = 2
    /\ unregOk = 1
    /\ \E t \in Threads : pc[t] = "lock"

\* The log of a call is empty, or holds only the one-time configuration.
OnlyConfigured(p) == log[p] \in {<<>>, configure_common_api_runtime}

\* t is about to return from entry point e (it still holds the mutex, so the
\* slot is what it will be at the return).
Returning(t, e) == pc[t] = "unlock" /\ op[t] = e

\* C4: launch() on a Running manager issues no call to the runtime and leaves
\* the slot and its handle unchanged, so consecutive launch() calls leave the
\* state Running with exactly one successful registration outstanding.
C4_LaunchIdempotent ==
    /\ [](\A t \in Threads :
            (Returning(t, "launch") /\ ~Transitioned(t))
                => /\ log[t] = <<>>
                   /\ slept[t] = 0
                   /\ has_value(running_service)
                   /\ registered = running_service
                   /\ regOk = unregOk + 1)
    /\ [][\A t \in Threads :
            (op[t] = "launch" /\ pc[t] = "check" /\ has_value(running_service))
                => /\ running_service' = running_service
                   /\ registered' = registered
                   /\ regOk' = regOk
                   /\ pc'[t] \in {"check", "unlock"}]_vars

\* A launch() found the service Running and is about to return.
C4_Witness ==
    \E t \in Threads :
        /\ Returning(t, "launch")
        /\ ~Transitioned(t)
        /\ has_value(running_service)

Last(seq) == seq[Len(seq)]

\* Every event e of the log is directly followed by a sleep.
RECURSIVE FollowedBySleep(_, _)
FollowedBySleep(seq, e) ==
    \/ seq = <<>>
    \/ /\ Head(seq) = e => (Len(seq) > 1 /\ seq[2] = "sleep")
       /\ FollowedBySleep(Tail(seq), e)

\* C6: a launch() started from Stopped does not get past wait_service while
\* the probe reports unavailable (each such poll is followed by a sleep and
\* another poll), however early registration succeeded; the first poll that
\* reports available is the last thing it does before storing the service and
\* returning.
C6_AvailabilityGating ==
    \A t \in Threads :
        (op[t] = "launch" /\ pc[t] \in {"store", "unlock"} /\ Transitioned(t))
            => /\ Last(log[t]) = "isAvailable:true"
               /\ Count(log[t], "isAvailable:true") = 1
               /\ Count(log[t], "registerService:true") = 1
               /\ FollowedBySleep(log[t], "isAvailable:false")
               /\ available

\* A launch() returns after its probe reported unavailable twice.
C6_Witness ==
    \E t \in Threads :
        /\ Returning(t, "launch")
        /\ Count(log[t], "isAvailable:false") = 2
        /\ Last(log[t]) = "isAvailable:true"

\* C7: when a terminate() that started from Running returns, the identity is
\* unavailable to a fresh probe.
C7_UnavailableAfterTerminate ==
    [][\A t \in Threads :
          (Returning(t, "terminate") /\ Transitioned(t) /\ pc'[t] = "idle")
              => (~available' /\ registered' = NoService)]_vars

\* A terminate() that had to poll while the service was still available is
\* about to return.
C7_Witness ==
    \E t \in Threads :
        /\ Returning(t, "terminate")
        /\ Count(log[t], "isAvailable:true") > 0

\* k failed attempts, each followed by one sleep.
RECURSIVE Retries(_, _)
Retries(failed, k) == IF k = 0 THEN <<>> ELSE <<failed, "sleep">> \o Retries(failed, k - 1)

\* A retry loop in which the operation failed k times and then succeeded:
\* k + 1 attempts, one sleep between consecutive attempts, none before the
\* first and none after the last.
RetryLoop(failed, ok, k) == Retries(failed, k) \o <<ok>>

\* The log of a call without the one-time configuration it may start with.
Transition(p) ==
    IF Len(log[p]) >= 2 /\ SubSeq(log[p], 1, 2) = configure_common_api_runtime
       THEN SubSeq(log[p], 3, Len(log[p]))
       ELSE log[p]

\* C8: a retry loop whose operation fails K times and then succeeds makes
\* exactly K+1 attempts with one sleep of RETRY_TIMEOUT between consecutive
\* attempts (K sleeps), for the register loop, the unregister loop and the
\* availability poll alike.
C8_RetryConvergence ==
    \A t \in Threads :
        /\ (Returning(t, "launch") /\ Transitioned(t)) =>
              LET k == Count(log[t], "registerService:false")
                  j == Count(log[t], "isAvailable:false")
              IN  /\ Transition(t) =
                        <<"Runtime::get">>
                        \o RetryLoop("registerService:false", "registerService:true", k)
                        \o <<"Runtime::get", "buildProxy">>
                        \o RetryLoop("isAvailable:false", "isAvailable:true", j)
                  /\ slept[t] = (k + j) * RETRY_TIMEOUT
        /\ (Returning(t, "terminate") /\ Transitioned(t)) =>
              LET k == Count(log[t], "unregisterService:false")
                  j == Count(log[t], "isAvailable:true")
              IN  /\ Transition(t) =
                        <<"Runtime::get">>
                        \o RetryLoop("unregisterService:false", "unregisterService:true", k)
                        \o <<"Runtime::get", "buildProxy">>
                        \o RetryLoop("isAvailable:true", "isAvailable:false", j)
                  /\ slept[t] = (k + j) * RETRY_TIMEOUT

\* A launch() returns after registerService failed twice and then succeeded.
C8_Witness ==
    \E t \in Threads :
        /\ Returning(t, "launch")
        /\ Count(log[t], "registerService:false") = 2
        /\ Count(log[t], "registerService:true") = 1

\* C9: when launch() returns the slot is Running and when terminate() returns
\* the slot is Stopped, whatever the slot was at entry and however many other
\* callers are queued.
C9_RequestedStateOnReturn ==
    [][\A t \in Threads :
          /\ (Returning(t, "launch") /\ pc'[t] = "idle") => has_value(running_service')
          /\ (Returning(t, "terminate") /\ pc'[t] = "idle") => ~has_value(running_service')]_vars

\* A terminate() that took the service down is about to return while every
\* other caller is queued on the lock.
C9_Witness ==
    \E t \in Threads :
        /\ Returning(t, "terminate")
        /\ Transitioned(t)
        /\ \A u \in Threads \ {t} : pc[u] = "lock"

----------------------------------------------------------------------------
\* The steps of a call that the scheduler takes once the thread can run.
Step(p) ==
    \/ p \in Threads /\ (instance(p) \/ launch_test_service(p) \/ register_service(p)
                           \/ store_service(p) \/ unlock(p))
    \/ terminate_test_service(p)
    \/ unregister_service(p)
    \/ buildProxy(p)
    \/ wait_service(p)
    \/ sleep(p)
    \/ reset_service(p)

\* A runnable thread eventually runs, a thread blocked on the mutex runs when
\* the mutex is free and stays free, and the runtime converges: a retry loop
\* fails at most MaxFail times and the availability follows the registration.
\* std::mutex promises no order among the threads blocked on it.
FairSpec ==
    /\ Spec
    /\ \A p \in Procs : WF_vars(Step(p))
    /\ \A t \in Threads : WF_vars(lock_guard(t))
    /\ WF_vars(becomeAvailable)
    /\ WF_vars(becomeUnavailable)

----------------------------------------------------------------------------
\* A call is being executed: the thread is past the lock_guard (or, for the
\* exiting thread, inside ~Manager) and has not returned.
InCall(p) == pc[p] \notin {"idle", "lock", "running", "exited", "crashed"}

\* What a client of the library and of the runtime can observe.
observable == <<running_service, registered, regOk, unregOk, configured, constructed,
                log, slept>>

\* C11: the calls take effect one after another, as on a single-threaded
\* manager: at most one call is being executed at a time, and every runtime
\* call, sleep and slot write is a step of that one call, so the observable
\* sequence is that of the calls run in the order they took the lock.
C11_SerialExecution ==
    /\ [](\A p, q \in Procs : (InCall(p) /\ InCall(q)) => p = q)
    /\ [][observable' # observable
            => \E p \in Procs :
                  /\ InCall(p)
                  /\ \A q \in Procs \ {p} :
                        /\ ~InCall(q)
                        /\ ~InCall(q)'
                        /\ log'[q] = log[q]
                        /\ slept'[q] = slept[q]]_vars

\* A terminate is in its retry loop while a launch and another terminate are
\* queued behind it.
C11_Witness ==
    \E t, u, v \in Threads :
        /\ pc[t] = "sleep_unregister"
        /\ pc[u] = "lock" /\ op[u] = "launch"
        /\ pc[v] = "lock" /\ op[v] = "terminate"

\* C12: every write to running_service, on every path that reaches one
\* (launch, terminate and the implicit terminate of process shutdown), is
\* made by a thread that holds the lock.
C12_SlotWrittenUnderLock ==
    [][\A p \in Procs : (pc[p] = "store" /\ pc'[p] # "store") => mutex = p]_vars

\* The log of a terminate that took the service down: the unregister retry
\* loop, then the poll until the probe reports unavailable.
TerminateLog(p) ==
    <<"Runtime::get">>
    \o RetryLoop("unregisterService:false", "unregisterService:true",
                 Count(log[p], "unregisterService:false"))
    \o <<"Runtime::get", "buildProxy">>
    \o RetryLoop("isAvailable:true", "isAvailable:false", Count(log[p], "isAvailable:true"))

\* C13: at process shutdown a manager that is still Running performs an
\* implicit terminate (unregister with retry, wait until unavailable, clear
\* the slot); a manager that is Stopped issues no runtime call.
C13_Teardown ==
    /\ [](pc[Main] = "exited" =>
            /\ ~has_value(running_service)
            /\ registered = NoService
            /\ IF Transitioned(Main)
                  THEN log[Main] = TerminateLog(Main) /\ ~available
                  ELSE log[Main] = <<>> /\ slept[Main] = 0)
    /\ [][(pc[Main] = "check" /\ pc'[Main] # "check")
            => IF has_value(running_service)
                  THEN pc'[Main] = "unregister" /\ service'[Main] = running_service
                  ELSE pc'[Main] = "exited" /\ log'[Main] = <<>>]_vars

\* The process has exited after an implicit terminate whose unregisterService
\* failed once before it succeeded.
C13_Witness ==
    /\ pc[Main] = "exited"
    /\ Transitioned(Main)
    /\ Count(log[Main], "unregisterService:false") = 1

\* p fetches the runtime and builds a proxy in this step.
BuildsProxy(p) == log'[p] = log[p] \o <<"Runtime::get", "buildProxy">>

\* C14: the one-time runtime configuration runs at most once in the process,
\* however many threads call concurrently, and it has run before the first
\* registerService, unregisterService or buildProxy call is issued.
C14_ConfiguredOnceAndFirst ==
    /\ [](configured <= 1)
    /\ [](constructed <=> configured = 1)
    /\ [][\A p \in Procs :
            (RegisterAttempt(p) \/ UnregisterAttempt(p) \/ BuildsProxy(p))
                => (configured = 1 /\ configured' = 1)]_vars

\* A second caller has been through Manager::instance() after the call that
\* configured the runtime: it is building its proxy while a third is queued.
C14_Witness ==
    /\ configured = 1
    /\ regOk = 1
    /\ \E t, u \in Threads :
          /\ pc[t] = "build_proxy" /\ op[t] = "terminate"
          /\ pc[u] = "lock"

----------------------------------------------------------------------------
\* wait_service when runtime->buildProxy<TestServiceProxy>(...) fails: it
\* returns an empty shared_ptr, which line 150 dereferences without a check.
\* The call on the null proxy reads through a null pointer and the process
\* is killed, all its threads with it.
wait_service_null_proxy(p) ==
    /\ pc[p] = "build_proxy"
    /\ Logged(p, <<"Runtime::get", "buildProxy:null">>)
    /\ pc' = [q \in Procs |-> "crashed"]
    /\ UNCHANGED <<mutex, constructed, running_service, op, service, slept,
                   created, runtimeVars, configured, rpc>>

ProbeNext ==
    \/ Next
    \/ \E p \in Procs : wait_service_null_proxy(p)

\* The library with a runtime that can also fail to hand out a proxy.
ProbeSpec == Init /\ [][ProbeNext]_vars

\* C15: no failure of the runtime during registration, unregistration or
\* availability probing, obtaining the probe included, ends a call
\* abnormally or puts the manager in an error state: each is retried.
C15_NoFailureSurfaces ==
    \A p \in Procs : pc[p] \notin {"crashed"}

----------------------------------------------------------------------------
\* C17: whenever a thread evaluates the state check at the start of launch or
\* terminate, the slot agrees with the runtime: it is populated if and only if
\* the last successful runtime call was a registration, and it then holds the
\* registered stub.
C17_CheckSeesSettledState ==
    \A p \in Procs :
        pc[p] = "check" =>
            /\ has_value(running_service) <=> (regOk = unregOk + 1)
            /\ ~has_value(running_service) <=> (regOk = unregOk)
            /\ registered = running_service

\* A terminate is at its check, with the service of a second launch Running,
\* while another terminate is queued behind it.
C17_Witness ==
    \E t, u \in Threads :
        /\ pc[t] = "check" /\ op[t] = "terminate"
        /\ has_value(running_service)
        /\ unregOk = 1
        /\ pc[u] = "lock" /\ op[u] = "terminate"

\* Every probe event of the log (building the proxy, a poll) comes after
\* the event ok.
ProbedOnlyAfter(seq, ok) ==
    \A i \in 1..Len(seq) :
        seq[i] \in {"buildProxy", "isAvailable:true", "isAvailable:false"}
            => \E j \in 1..(i - 1) : seq[j] = ok

Launching(p) ==
    /\ op[p] = "launch"
    /\ pc[p] \in {"register", "sleep_register", "build_proxy", "poll", "sleep_poll", "store"}

Terminating(p) ==
    /\ op[p] \in {"terminate", "destructor"}
    /\ pc[p] \in {"unregister", "sleep_unregister", "build_proxy", "poll", "sleep_poll",
                  "store"}

\* C18: in a launch from Stopped no probe is built or polled before a
\* register attempt has succeeded and the slot becomes Running only after a
\* poll returned available; in a terminate from Running no probe is built or
\* polled before an unregister attempt has succeeded and the slot keeps its
\* handle until a poll returned unavailable.
C18_StepOrder ==
    /\ [](\A p \in Procs :
            /\ op[p] = "launch" => ProbedOnlyAfter(log[p], "registerService:true")
            /\ op[p] \in {"terminate", "destructor"}
                  => ProbedOnlyAfter(log[p], "unregisterService:true")
            /\ Launching(p) => ~has_value(running_service)
            /\ Terminating(p) => (has_value(running_service) /\ running_service = service[p]))
    /\ [][running_service' # running_service
            => \E p \in Procs :
                  /\ pc[p] = "store"
                  /\ pc'[p] # "store"
                  /\ Last(log[p]) = (IF has_value(running_service')
                                        THEN "isAvailable:true"
                                        ELSE "isAvailable:false")]_vars

\* A terminate has unregistered and is polling a probe that still reports
\* available; the slot still holds the handle.
C18_Witness ==
    \E t \in Threads :
        /\ op[t] = "terminate"
        /\ pc[t] = "sleep_poll"
        /\ has_value(running_service)
        /\ registered = NoService

\* C19: every launch from Stopped creates a fresh handle, registers exactly
\* that handle and stores exactly that handle; a handle dropped by a
\* terminate is never registered again, and the slot holds at most one
\* handle, the newest.
C19_FreshHandle ==
    /\ [](has_value(running_service) => running_service = created)
    /\ [](registered # NoService => registered = created)
    /\ [][\A t \in Threads :
            /\ (pc[t] = "check" /\ pc'[t] = "register")
                  => (service'[t] \notin 0..created /\ service'[t] \in 1..created')
            /\ (pc[t] = "register" /\ pc'[t] = "build_proxy")
                  => (registered' = service[t] /\ registered = NoService)
            /\ (op[t] = "launch" /\ pc[t] = "store" /\ pc'[t] # "store")
                  => (running_service' = service[t] /\ registered = service[t])]_vars

\* The second launch has stored its own, second stub.
C19_Witness ==
    /\ created = 2
    /\ regOk = 2
    /\ running_service = 2

\* Positions at which a caller holds the mutex.
Holding(t) ==
    pc[t] \in {"instance", "check", "register", "sleep_register", "unregister",
               "sleep_unregister", "build_proxy", "poll", "sleep_poll", "store", "unlock"}

\* C20: the lock is held exactly by the thread that is inside launch() or
\* terminate() past its lock_guard: it is free whenever no thread is inside,
\* every return releases it, and its holder never waits for it again.
C20_LockNeitherLeakedNorReacquired ==
    /\ [](\A t \in Threads : mutex = t <=> Holding(t))
    /\ []((\A t \in Threads : pc[t] = "idle") => mutex = NoThread)
    /\ [][\A t \in Threads :
            /\ (pc[t] = "unlock" /\ pc'[t] # "unlock") => (mutex = t /\ mutex' = NoThread)
            /\ pc'[t] = "lock" => mutex' # t]_vars

\* Calls have returned along the transition path of launch and along the
\* no-op path of terminate: the service runs, nobody is inside, and a
\* terminate that will find it Running is about to take the lock.
C20_Witness ==
    /\ has_value(running_service)
    /\ mutex = NoThread
    /\ \E t \in Threads :
          /\ pc[t] = "lock"
          /\ \A u \in Threads \ {t} : pc[u] = "idle"

----------------------------------------------------------------------------
(***************************************************************************)
(* TestServiceStubImpl (service.hpp).  A value on the stub's side of the   *)
(* generated RPC layer is written as a sequence of literals: one literal   *)
(* for a scalar or a string, one per element for an array, one per field   *)
(* for AllPrimitiveDataTypes.  Each method is the sequence of values it    *)
(* passes to its reply callback, in order.                                 *)
(***************************************************************************)
Bools == {<<"false">>, <<"true">>}
Int8s == {<<"-128">>, <<"-1">>, <<"0">>, <<"1">>, <<"127">>}
Int16s == {<<"-32768">>, <<"-1">>, <<"0">>, <<"1">>, <<"32767">>}
Int32s == {<<"-2147483648">>, <<"-1">>, <<"0">>, <<"1">>, <<"2147483647">>}
Int64s == {<<"-9223372036854775808">>, <<"-1">>, <<"0">>, <<"1">>, <<"9223372036854775807">>}
UInt8s == {<<"0">>, <<"1">>, <<"127">>, <<"128">>, <<"255">>}
UInt16s == {<<"0">>, <<"1">>, <<"32767">>, <<"32768">>, <<"65535">>}
UInt32s == {<<"0">>, <<"1">>, <<"2147483647">>, <<"2147483648">>, <<"4294967295">>}
UInt64s == {<<"0">>, <<"1">>, <<"4294967296">>, <<"9223372036854775808">>,
            <<"18446744073709551615">>}
Floats == {<<"0.0">>, <<"-0.0">>, <<"1.5">>, <<"-3.4028235e38">>, <<"inf">>}
Doubles == {<<"0.0">>, <<"-0.0">>, <<"1.5">>, <<"1.7976931348623157e308">>, <<"-inf">>}
Strings == {<<"">>, <<"a">>, <<"hello">>, <<"h\\u00e9llo">>, <<"hello world, hello world">>}
Arrays == {<<>>, <<"0">>, <<"1", "2", "3">>, <<"4294967295", "0">>,
           <<"7", "7", "7", "7", "7">>}
\* AllPrimitiveDataTypes: one field of each primitive type.
Structs ==
    {<<b[1], i[1], "-32768", "2147483647", "-1", u[1], "65535", "0", "18446744073709551615",
       "1.5", "-0.0">> : b \in Bools, i \in {<<"-128">>, <<"127">>}, u \in {<<"0">>, <<"255">>}}

test_bool(flag) == <<flag>>

test_int8(param) == <<param>>

test_int32(param) == <<param>>

test_int64(param) == <<param>>

test_uint8(param) == <<param>>

test_uint16(param) == <<param>>

test_uint32(param) == <<param>>

test_uint64(param) == <<param>>

test_double(param) == <<param>>

test_float(param) == <<param>>

test_struct(request) == <<request>>

test_utf16le_dynamic_length_string(param) == <<param>>

test_utf16be_dynamic_length_string(param) == <<param>>

test_utf8_dynamic_length_string(param) == <<param>>

test_utf16le_fixed_length_string(param) == <<param>>

test_utf16be_fixed_length_string(param) == <<param>>

test_utf8_fixed_length_string(param) == <<param>>

test_fixed_length_array(param) == <<param>>

test_dynamic_length_1_byte_array(param) == <<param>>

test_dynamic_length_2_bytes_array(param) == <<param>>

test_dynamic_length_4_bytes_array(param) == <<param>>

\* void test_fire_and_forget_uint64(client, param): logs, has no reply.
test_fire_and_forget_uint64(param) == <<>>

\* Mutant of test_int16: the reply callback is never invoked.
test_int16_unanswered(param) == <<>>

test_int16(param) == <<param>>

TwoWay ==
    {"test_bool",
     "test_int8",
     "test_int16",
     "test_int32",
     "test_int64",
     "test_uint8",
     "test_uint16",
     "test_uint32",
     "test_uint64",
     "test_double",
     "test_float",
     "test_struct",
     "test_utf16le_dynamic_length_string",
     "test_utf16be_dynamic_length_string",
     "test_utf8_dynamic_length_string",
     "test_utf16le_fixed_length_string",
     "test_utf16be_fixed_length_string",
     "test_utf8_fixed_length_string",
     "test_fixed_length_array",
     "test_dynamic_length_1_byte_array",
     "test_dynamic_length_2_bytes_array",
     "test_dynamic_length_4_bytes_array"}

Methods == TwoWay \cup {"test_fire_and_forget_uint64"}

\* The inputs a method is called with.
Inputs(method) ==
    CASE method = "test_bool" -> Bools
      [] method = "test_int8" -> Int8s
      [] method = "test_int16" -> Int16s
      [] method = "test_int32" -> Int32s
      [] method = "test_int64" -> Int64s
      [] method = "test_uint8" -> UInt8s
      [] method = "test_uint16" -> UInt16s
      [] method = "test_uint32" -> UInt32s
      [] method \in {"test_uint64", "test_fire_and_forget_uint64"} -> UInt64s
      [] method = "test_double" -> Doubles
      [] method = "test_float" -> Floats
      [] method = "test_struct" -> Structs
      [] method \in {"test_fixed_length_array", "test_dynamic_length_1_byte_array",
                     "test_dynamic_length_2_bytes_array",
                     "test_dynamic_length_4_bytes_array"} -> Arrays
      [] OTHER -> Strings

\* The virtual call the generated stub adapter makes for a decoded request.
Invoke(method, param) ==
    CASE method = "test_bool" -> test_bool(param)
      [] method = "test_int8" -> test_int8(param)
      [] method = "test_int16" -> test_int16(param)
      [] method = "test_int32" -> test_int32(param)
      [] method = "test_int64" -> test_int64(param)
      [] method = "test_uint8" -> test_uint8(param)
      [] method = "test_uint16" -> test_uint16(param)
      [] method = "test_uint32" -> test_uint32(param)
      [] method = "test_uint64" -> test_uint64(param)
      [] method = "test_double" -> test_double(param)
      [] method = "test_float" -> test_float(param)
      [] method = "test_struct" -> test_struct(param)
      [] method = "test_utf16le_dynamic_length_string" -> test_utf16le_dynamic_length_string(param)
      [] method = "test_utf16be_dynamic_length_string" -> test_utf16be_dynamic_length_string(param)
      [] method = "test_utf8_dynamic_length_string" -> test_utf8_dynamic_length_string(param)
      [] method = "test_utf16le_fixed_length_string" -> test_utf16le_fixed_length_string(param)
      [] method = "test_utf16be_fixed_length_string" -> test_utf16be_fixed_length_string(param)
      [] method = "test_utf8_fixed_length_string" -> test_utf8_fixed_length_string(param)
      [] method = "test_fixed_length_array" -> test_fixed_length_array(param)
      [] method = "test_dynamic_length_1_byte_array" -> test_dynamic_length_1_byte_array(param)
      [] method = "test_dynamic_length_2_bytes_array" -> test_dynamic_length_2_bytes_array(param)
      [] method = "test_dynamic_length_4_bytes_array" -> test_dynamic_length_4_bytes_array(param)
      [] method = "test_fire_and_forget_uint64" -> test_fire_and_forget_uint64(param)

lifecycleVars == <<mutex, constructed, running_service, pc, op, service, log, slept,
                   registered, available, created, regOk, unregOk, configured>>

\* The runtime delivers a decoded request to the stub, on one of its own
\* threads and outside the lifecycle lock; the stub has no fields.
dispatch ==
    /\ \E method \in Methods :
          \E param \in Inputs(method) :
              rpc' = [method |-> method, param |-> param, replies |-> Invoke(method, param)]
    /\ UNCHANGED lifecycleVars

\* The stub alone, called with every method and input.
EchoSpec == Init /\ [][dispatch]_vars

\* C16: every two-way operation invokes its reply exactly once, with a value
\* equal to its input; the fire-and-forget operation invokes no reply and
\* changes no state.
C16_Echo ==
    /\ [](rpc.method \in TwoWay => rpc.replies = <<rpc.param>>)
    /\ [](rpc.method = "test_fire_and_forget_uint64" => rpc.replies = <<>>)
    /\ [][rpc'.method = "test_fire_and_forget_uint64" => lifecycleVars' = lifecycleVars]_vars

\* test_struct has echoed an AllPrimitiveDataTypes value.
C16_Witness ==
    /\ rpc.method = "test_struct"
    /\ rpc.param \in Structs
    /\ Len(rpc.replies) = 1

====
